---- MODULE Spec2Model ----
(***************************************************************************)
(* s3test.go: a sequential harness that opens an S3 object once per range  *)
(* read, seeks, reads `readsize` bytes in a loop and prints timing lines.  *)
(*                                                                         *)
(* The model follows main() and readFrom() statement by statement.  The    *)
(* storage client (connect, Stat, Open, Seek, Read) is the environment:    *)
(* every call may fail, and Read returns any number of bytes that fits the *)
(* buffer it was handed.  Go's 64-bit integers are scaled to WordBits bits *)
(* so that wrap-around stays inside the checked range: uint64 is           *)
(* 0..UintMod-1 and int64 is -(MaxInt64+1)..MaxInt64.                      *)
(***************************************************************************)
EXTENDS Integers, Sequences, FiniteSets, TLC

\* ----------------------------------------------------------------- bounds
\* Width of the machine word (64 in the build).
WordBits == 6
\* Largest value given to the --readsize flag.
MaxReadSize == 4

UintMod == 2 ^ WordBits
MaxInt64 == 2 ^ (WordBits - 1) - 1

\* uint64(x): conversion of a signed value, and the wrap of every uint64 result.
Uint64(x) == x % UintMod

\* int64(x) of a uint64 value (Seek's argument, line 160).
Int64(x) == IF x > MaxInt64 THEN x - UintMod ELSE x

\* ------------------------------------------------------------------ state
VARIABLES
    pc,          \* position in main / readFrom
    filename,    \* flag.Arg(0)
    readsize,    \* *readsize, the --readsize flag (a signed int)
    objectSize,  \* size of the object in the store
    minRead,     \* fewest bytes the transport returns for a non-empty buffer
    fs,          \* main: fs ("nil" until connect returned)
    fileinfo,    \* main: fileinfo.Size(), NoInfo until Stat returned
    filesize,    \* main: filesize
    readSize,    \* main: readSize
    readCount,   \* main: readCount
    i,           \* main: loop index
    offset,      \* readFrom: offset
    size,        \* readFrom: size
    totalsize,   \* readFrom: totalsize
    f,           \* readFrom: f, 0 is the nil interface, else the handle's number
    err,         \* err, the last error a call returned ("nil" if none)
    bLen,        \* readFrom: len(b)
    curOffset,   \* readFrom: curOffset
    closes,      \* closes[h]: number of Close calls on the h-th opened handle
    seeks,       \* positions passed to Seek, in call order
    readCalls,   \* Read calls of the current readFrom (exact up to size + 1)
    totalRead,   \* bytes returned by all successful Read calls
    lines,       \* the "Read %d bytes at offset ..." lines printed
    summary,     \* the final line, NoSummary until printed
    panicValue,  \* value the process panicked with, "none" otherwise
    exitStatus   \* process exit status, Running until it ended

vars == <<pc, filename, readsize, objectSize, minRead, fs, fileinfo, filesize,
          readSize, readCount, i, offset, size, totalsize, f, err, bLen,
          curOffset, closes, seeks, readCalls, totalRead, lines, summary,
          panicValue, exitStatus>>

cfgVars == <<filename, readsize, objectSize, minRead>>
mainVars == <<fs, fileinfo, filesize, readSize, readCount, i>>
callVars == <<offset, size, totalsize, f, bLen, curOffset, readCalls>>
outVars == <<lines, summary>>

NoInfo == -1
Running == -1
NoSummary == [bytes |-> -1, bits |-> -1]

Filenames == {"", "video.mp4"}
ReadSizes == -1 .. MaxReadSize
ObjectSizes == 0 .. MaxInt64

Init ==
    /\ pc = "parse"
    /\ filename \in Filenames
    /\ readsize \in ReadSizes
    /\ objectSize \in ObjectSizes
    /\ minRead \in {0, 1}
    /\ fs = "nil"
    /\ fileinfo = NoInfo
    /\ filesize = 0
    /\ readSize = 0
    /\ readCount = 0
    /\ i = 0
    /\ offset = 0
    /\ size = 0
    /\ totalsize = 0
    /\ f = 0
    /\ err = "nil"
    /\ bLen = 0
    /\ curOffset = 0
    /\ closes = <<>>
    /\ seeks = <<>>
    /\ readCalls = 0
    /\ totalRead = 0
    /\ lines = <<>>
    /\ summary = NoSummary
    /\ panicValue = "none"
    /\ exitStatus = Running

\* ---------------------------------------------------------------- helpers
\* panic(v): the goroutine unwinds and the process exits with status 2.
Panic(v) ==
    /\ pc' = "panicked"
    /\ panicValue' = v
    /\ exitStatus' = 2

\* Variant: the count rounded up, so that the tail of the file is read too.
ReadCount_RoundUp(fsz, rs) == (fsz + rs - 1) \div rs

\* readCount := filesize / readSize (unsigned division, truncating).
ReadCount(fsz, rs) == fsz \div rs

\* offset := readSize*i
Offset(rs, k) == (rs * k) % UintMod

\* i++
NextIndex(k) == (k + 1) % UintMod

\* i < readCount
LoopCond(k, rc) == k < rc

\* readSize*readCount, the byte count of the summary and totalsize of readFrom.
SummaryBytes(rs, rc) == (rs * rc) % UintMod

\* readSize*readCount*8, the argument of float64() in the summary.
SummaryBits(rs, rc) == (((rs * rc) % UintMod) * 8) % UintMod

\* Variant: the whole of b is handed to every Read call.
ReadBuf_Whole(len, cur) == len

\* len(b[curOffset:]), the buffer handed to Read.
ReadBuf(len, cur) == len - cur

\* Byte counts a Read call may return without error for a buffer of n bytes.
ReadCounts(n) == IF n = 0 THEN {0} ELSE minRead .. n

\* Variant: the loop is left only once the cursor has passed size.
LoopExit_Strict(cur, sz) == cur > sz

\* Variant: the loop is left one byte early.
LoopExit_Early(cur, sz) == cur + 1 >= sz

\* if curOffset >= size { break }
LoopExit(cur, sz) == cur >= sz

\* Variant: an explicit Close next to the deferred one.
RunDeferred_Twice(cl, h) == [cl EXCEPT ![h] = @ + 2]

\* Variant: no deferred Close.
RunDeferred_Skip(cl, h) == cl

\* defer f.Close() running when readFrom returns: Close on handle h.
RunDeferred(cl, h) == [cl EXCEPT ![h] = @ + 1]

\* "Read %d bytes at offset %d in %.3fs (%.1f%%)"
ProgressLine(cur, off, total) ==
    [bytes |-> cur, offset |-> off, pctNum |-> (100 * off) % UintMod, pctDen |-> total]

\* The read-call counter: exact up to sz + 1, then only its parity is kept.
CountCall(c, sz) == IF c <= sz THEN c + 1 ELSE IF c = sz + 1 THEN sz + 2 ELSE sz + 1

\* ------------------------------------------------------------------- main
\* flag.Parse(); filename := flag.Arg(0); usage and os.Exit(1) when empty.
ParseArgs ==
    /\ pc = "parse"
    /\ IF filename = ""
       THEN /\ pc' = "exited"
            /\ exitStatus' = 1
       ELSE /\ pc' = "connect"
            /\ UNCHANGED exitStatus
    /\ UNCHANGED <<cfgVars, mainVars, callVars, outVars, err, closes, seeks,
                   totalRead, panicValue>>

\* fs, err := connect(ctx); panic(err) on failure.
Connect ==
    /\ pc = "connect"
    /\ \/ /\ fs' = "fs"
          /\ err' = "nil"
          /\ pc' = "stat"
          /\ UNCHANGED <<panicValue, exitStatus>>
       \/ /\ err' = "ConnectErr"
          /\ Panic("ConnectErr")
          /\ UNCHANGED fs
    /\ UNCHANGED <<cfgVars, fileinfo, filesize, readSize, readCount, i, callVars,
                   outVars, closes, seeks, totalRead>>

\* fileinfo, err := fs.Stat(filename); panic(err) on failure.
Stat ==
    /\ pc = "stat"
    /\ \/ /\ fileinfo' = objectSize
          /\ err' = "nil"
          /\ pc' = "plan"
          /\ UNCHANGED <<panicValue, exitStatus>>
       \/ /\ err' = "StatErr"
          /\ Panic("StatErr")
          /\ UNCHANGED fileinfo
    /\ UNCHANGED <<cfgVars, fs, filesize, readSize, readCount, i, callVars,
                   outVars, closes, seeks, totalRead>>

\* filesize := uint64(fileinfo.Size()); readSize := uint64(*readsize);
\* readCount := filesize / readSize, a run-time panic when readSize is 0.
Plan ==
    /\ pc = "plan"
    /\ filesize' = Uint64(fileinfo)
    /\ readSize' = Uint64(readsize)
    /\ IF readSize' = 0
       THEN /\ Panic("integer divide by zero")
            /\ UNCHANGED <<readCount, i>>
       ELSE /\ readCount' = ReadCount(filesize', readSize')
            /\ i' = 0
            /\ pc' = "loop"
            /\ UNCHANGED <<panicValue, exitStatus>>
    /\ UNCHANGED <<cfgVars, fs, fileinfo, callVars, outVars, err, closes, seeks,
                   totalRead>>

\* for i < readCount: offset := readSize*i; readFrom(fs, filename, offset,
\* readSize, readSize*readCount) is entered.
LoopCall ==
    /\ pc = "loop"
    /\ LoopCond(i, readCount)
    /\ offset' = Offset(readSize, i)
    /\ size' = readSize
    /\ totalsize' = SummaryBytes(readSize, readCount)
    /\ f' = 0
    /\ bLen' = 0
    /\ curOffset' = 0
    /\ readCalls' = 0
    /\ pc' = "open"
    /\ UNCHANGED <<cfgVars, mainVars, outVars, err, closes, seeks, totalRead,
                   panicValue, exitStatus>>

\* The loop is over: the summary line is printed and main returns.
Summary ==
    /\ pc = "loop"
    /\ ~LoopCond(i, readCount)
    /\ summary' = [bytes |-> SummaryBytes(readSize, readCount),
                   bits |-> SummaryBits(readSize, readCount)]
    /\ pc' = "done"
    /\ exitStatus' = 0
    /\ UNCHANGED <<cfgVars, mainVars, callVars, lines, err, closes, seeks,
                   totalRead, panicValue>>

\* --------------------------------------------------------------- readFrom
\* f, err := fs.Open(filename); defer f.Close(); if err != nil { return err }.
\* When Open fails f is the nil interface and evaluating f.Close in the defer
\* statement is a nil dereference: the process panics with that run-time
\* error, and the `return err` below it is never reached.
Open ==
    /\ pc = "open"
    /\ \/ /\ closes' = Append(closes, 0)
          /\ f' = Len(closes) + 1
          /\ err' = "nil"
          /\ pc' = "seek"
          /\ UNCHANGED <<panicValue, exitStatus>>
       \/ /\ f' = 0
          /\ err' = "OpenErr"
          /\ Panic("nil pointer dereference")
          /\ UNCHANGED closes
    /\ UNCHANGED <<cfgVars, mainVars, offset, size, totalsize, bLen, curOffset,
                   readCalls, outVars, seeks, totalRead>>

\* _, err = fSeek.Seek(int64(offset), 0); on failure readFrom returns err (the
\* deferred Close runs) and main panics with it.  b := make([]byte, size).
Seek ==
    /\ pc = "seek"
    /\ seeks' = Append(seeks, Int64(offset))
    /\ \/ /\ err' = "nil"
          /\ bLen' = size
          /\ curOffset' = 0
          /\ pc' = "read"
          /\ UNCHANGED <<closes, panicValue, exitStatus>>
       \/ /\ err' = "SeekErr"
          /\ closes' = RunDeferred(closes, f)
          /\ Panic("SeekErr")
          /\ UNCHANGED <<bLen, curOffset>>
    /\ UNCHANGED <<cfgVars, mainVars, offset, size, totalsize, f, readCalls,
                   outVars, totalRead>>

\* One pass of the read loop: n, err = f.Read(b[curOffset:]); return err on
\* failure; curOffset += n; leave the loop when curOffset >= size, print the
\* line, return nil (the deferred Close runs) and main does i++.
Read ==
    /\ pc = "read"
    /\ readCalls' = CountCall(readCalls, size)
    /\ \/ /\ err' = "ReadErr"
          /\ closes' = RunDeferred(closes, f)
          /\ Panic("ReadErr")
          /\ UNCHANGED <<curOffset, totalRead, lines, i>>
       \/ \E n \in ReadCounts(ReadBuf(bLen, curOffset)) :
             /\ err' = "nil"
             /\ curOffset' = (curOffset + n) % UintMod
             /\ totalRead' = totalRead + n
             /\ IF LoopExit(curOffset', size)
                THEN /\ lines' = Append(lines, ProgressLine(curOffset', offset, totalsize))
                     /\ closes' = RunDeferred(closes, f)
                     /\ i' = NextIndex(i)
                     /\ pc' = "loop"
                ELSE /\ pc' = "read"
                     /\ UNCHANGED <<lines, closes, i>>
             /\ UNCHANGED <<panicValue, exitStatus>>
    /\ UNCHANGED <<cfgVars, fs, fileinfo, filesize, readSize, readCount, offset,
                   size, totalsize, f, bLen, summary, seeks>>

Next ==
    \/ ParseArgs
    \/ Connect
    \/ Stat
    \/ Plan
    \/ LoopCall
    \/ Summary
    \/ Open
    \/ Seek
    \/ Read

Spec == Init /\ [][Next]_vars

\* The process is single-threaded and keeps executing its next statement.
LiveSpec == Init /\ [][Next]_vars /\ WF_vars(Next)

Terminated == pc \in {"done", "panicked", "exited"}

TypeOK ==
    /\ pc \in {"parse", "connect", "stat", "plan", "loop", "open", "seek", "read",
               "done", "panicked", "exited"}
    /\ filesize \in 0 .. UintMod - 1
    /\ readSize \in 0 .. UintMod - 1
    /\ readCount \in 0 .. UintMod - 1
    /\ i \in 0 .. UintMod - 1
    /\ offset \in 0 .. UintMod - 1
    /\ curOffset \in 0 .. UintMod - 1
    /\ f \in 0 .. Len(closes)
\* ----------------------------------------------------------------- claims
InReadFrom == pc \in {"open", "seek", "read"}

OpenHandles == {h \in DOMAIN closes : closes[h] = 0}

RECURSIVE SumBytes(_)
SumBytes(ls) == IF ls = <<>> THEN 0 ELSE ls[1].bytes + SumBytes(Tail(ls))

\* C1: for readsize > 0 the range reads are issued at 0, readsize,
\* 2*readsize, ... in this order, each with offset + readsize <= file size,
\* and a run that reaches the summary issued exactly floor(size/readsize).
C1_ReadPlan ==
    (readsize > 0) =>
        /\ \A k \in 1 .. Len(seeks) :
              /\ seeks[k] = (k - 1) * readsize
              /\ seeks[k] + readsize <= objectSize
        /\ Len(seeks) <= objectSize \div readsize
        /\ (pc = "done" => Len(seeks) = objectSize \div readsize)

C1_Witness ==
    /\ pc = "done"
    /\ readsize > 1
    /\ Len(seeks) >= 3
    /\ objectSize % readsize # 0

\* C2: with readsize = 0 nothing touches the store (no connect, no Stat, no
\* Open, Seek or Read) and the run ends with a configuration error.
C2_ZeroReadSizeNoIO ==
    (readsize = 0) =>
        /\ fs = "nil"
        /\ fileinfo = NoInfo
        /\ Len(closes) = 0
        /\ Len(seeks) = 0
        /\ readCalls = 0
        /\ (pc = "panicked" => panicValue = "ConfigError")

\* C3: the read loop never hands Read more than size - cursor bytes, never
\* calls Read once the cursor is at size, and every range read that returns
\* successfully has read exactly size bytes.
C3_ReadLoopFills ==
    /\ InReadFrom => curOffset <= size
    /\ pc = "read" =>
          /\ curOffset < size
          /\ ReadBuf(bLen, curOffset) = size - curOffset
    /\ \A k \in 1 .. Len(lines) : lines[k].bytes = Uint64(readsize)
    /\ (pc # "panicked") =>
          totalRead = SumBytes(lines) + (IF InReadFrom THEN curOffset ELSE 0)

C3_Witness ==
    /\ minRead = 1
    /\ pc = "loop"
    /\ size >= 4
    /\ readCalls \in 2 .. size - 1
    /\ Len(lines) >= 2

\* C4: once readFrom is over, however it ended, every handle that Open
\* returned has been closed exactly once; no handle is ever closed twice.
C4_ClosedOnce ==
    /\ \A h \in DOMAIN closes : closes[h] <= 1
    /\ ~InReadFrom => \A h \in DOMAIN closes : closes[h] = 1

C4_Witness ==
    /\ pc = "panicked"
    /\ err = "ReadErr"
    /\ curOffset > 0
    /\ Len(closes) >= 2

C4_WitnessSeek ==
    /\ pc = "panicked"
    /\ err = "SeekErr"
    /\ Len(closes) >= 2

\* C5: when Open, Seek or Read returns an error, the range read stops at
\* once, prints no line for itself, and the error it hands up is that error.
C5_ErrorsPropagate ==
    (err \in {"OpenErr", "SeekErr", "ReadErr"}) =>
        /\ pc = "panicked"
        /\ panicValue = err
        /\ Len(lines) = i

\* C6: a failure inside the loop ends the run with that error and a
\* non-zero status, with no summary and no range read at a later offset.
C6_AbortOnFailure ==
    (pc = "panicked" /\ err \in {"OpenErr", "SeekErr", "ReadErr"}) =>
        /\ summary = NoSummary
        /\ exitStatus # 0
        /\ err # "nil"
        /\ panicValue = err
        /\ Len(seeks) <= i + 1

\* C7: at most one handle is open at any time, it is the one the current
\* range read holds, and none is open between range reads, at the summary
\* or when the run has ended.
C7_OneHandle ==
    /\ Cardinality(OpenHandles) <= 1
    /\ OpenHandles \subseteq {f}
    /\ pc \notin {"seek", "read"} => OpenHandles = {}

C7_Witness ==
    /\ pc = "seek"
    /\ Len(closes) >= 3

\* C8: the byte count of the summary is the number of bytes the Read calls
\* returned, which is the sum over the printed lines and, for readsize > 0,
\* floor(size/readsize) * readsize: a function of (size, readsize) alone.
C8_TotalBytes ==
    (pc = "done") =>
        /\ summary.bytes = totalRead
        /\ totalRead = SumBytes(lines)
        /\ (readsize > 0 => totalRead = (objectSize \div readsize) * readsize)

C8_Witness ==
    /\ pc = "done"
    /\ readsize >= 3
    /\ Len(lines) >= 2
    /\ readCalls = 2
    /\ objectSize % readsize # 0

\* C9: the number of bits the summary divides by the elapsed time is eight
\* times the number of bytes read, whatever that number is.
C9_Throughput ==
    (pc = "done") => summary.bits = 8 * totalRead

\* C10: when every Read call returns an error or at least one byte, the run
\* ends; meanwhile no range read makes more than size Read calls, and a run
\* that reaches the summary made exactly floor(size/readSize) range reads.
C10_Terminates ==
    (minRead = 1) =>
        /\ <>Terminated
        /\ [](/\ readCalls <= size
              /\ pc = "done" =>
                    /\ i = objectSize \div Uint64(readsize)
                    /\ Len(lines) = i)

C10_Witness ==
    /\ minRead = 1
    /\ pc = "done"
    /\ size >= 3
    /\ readCalls = size
    /\ Len(lines) >= 2

\* Not a theorem: with minRead = 0 a Read that keeps returning 0 bytes and no
\* error keeps the loop of readFrom running, and TLC refutes this under LiveSpec.
ZeroReadsTerminate == <>Terminated
====
